---- MODULE Spec2Model ----
(***************************************************************************)
(* Model of the Express application in src/index.js: signup, login,       *)
(* logout, the member page and the role-gated admin area, over a users     *)
(* collection (MongoDB) and per-client server-side sessions.               *)
(*                                                                         *)
(* Strings are sequences of one-character strings, so that the Joi rules   *)
(* (lengths, e-mail syntax) are computed on the value itself.  A missing   *)
(* request field or session field (JavaScript undefined) is UNDEF.         *)
(*                                                                         *)
(* A client has at most one request in flight, so req.session is the       *)
(* stored session itself and no request reads another client's session.    *)
(* A handler is therefore cut only between two accesses to the users       *)
(* collection: POST /signup between findOne and insertOne.  Requests of    *)
(* different clients interleave at these cuts.                             *)
(*                                                                         *)
(* resp is the response of the step just taken: the step after a response  *)
(* is Sent, which lets it leave.  hist records what the properties need    *)
(* of the past and is read by no action's guard or effect on the program.  *)
(***************************************************************************)
EXTENDS Integers, Sequences, FiniteSets, TLC

\* ---------------------------------------------------------------- bounds
\* Largest number of documents the users collection grows to.
MaxUsers == 2

\* Largest salt bcrypt draws (salts are 1..MaxSalt).
MaxSalt == 1

\* Cap of the counter of consecutive failed logins.
MaxFails == 2

\* ------------------------------------------------------------- constants
NameMaxLen == 30

PasswordMinLen == 6

SaltRounds == 12

\* ---------------------------------------------------------------- values
UNDEF == <<"undefined">>

NoRole == "undefined"

Clients == {"sidA", "sidB"}

Salts == 1..MaxSalt

NameAl == <<"A", "l">>

NameRoot == <<"R", "o", "o", "t">>

NameLong == [i \in 1..(NameMaxLen + 1) |-> "x"]

EmailA == <<"a", "@", "x", ".", "c", "o", "m">>

EmailB == <<"b", "@", "x", ".", "c", "o", "m">>

EmailNoAt == <<"a", ".", "c", "o", "m">>

EmailNoTld == <<"a", "@", "x">>

Pw1 == <<"s", "e", "c", "r", "e", "t", "1">>

Pw2 == <<"s", "e", "c", "r", "e", "t", "2">>

PwShort == <<"s", "e", "c", "r", "e">>

EmptyStr == <<>>

Body(name, email, password) == [name |-> name, email |-> email, password |-> password]

\* The bodies posted to /signup: the valid ones, and one for every way of
\* breaking one rule of the schema.
SignupBodies ==
    {Body(NameAl, e, Pw1) : e \in {EmailA, EmailB}}
    \cup {Body(n, EmailA, Pw1) : n \in {UNDEF, EmptyStr, NameLong}}
    \cup {Body(NameAl, e, Pw1) : e \in {UNDEF, EmailNoAt, EmailNoTld}}
    \cup {Body(NameAl, EmailA, p) : p \in {UNDEF, EmptyStr, PwShort}}

\* The bodies posted to /login (a login form has no name field).
LoginBodies ==
    {Body(UNDEF, e, p) : e \in {EmailA, EmailB}, p \in {Pw1, Pw2, PwShort}}
    \cup {Body(UNDEF, e, Pw1) : e \in {UNDEF, EmailNoAt, EmailNoTld}}
    \cup {Body(UNDEF, EmailA, p) : p \in {UNDEF, EmptyStr}}

\* Targets of /promote/:email and /demote/:email (a URL segment is never
\* undefined or empty); either email may have no account yet.
Targets == {EmailA, EmailB}

\* Top-level domains Joi's email() accepts (the IANA list, cut down to the
\* one the inputs use).
KnownTlds == {<<"c", "o", "m">>}

\* ------------------------------------------------------------ validation
\* Joi.string().required(): a string, not undefined, not empty.
JoiString(v) == v # UNDEF /\ Len(v) >= 1

\* Joi.string().email(): one "@", a non-empty local part, a domain of at
\* least two non-empty segments ending in a known top-level domain.
JoiEmail(v) ==
    /\ JoiString(v)
    /\ Cardinality({i \in 1..Len(v) : v[i] = "@"}) = 1
    /\ LET at == CHOOSE i \in 1..Len(v) : v[i] = "@"
           domain == SubSeq(v, at + 1, Len(v))
           dots == {i \in 1..Len(domain) : domain[i] = "."}
       IN /\ at > 1
          /\ Len(domain) >= 1
          /\ dots # {}
          /\ \A i \in dots : /\ i > 1
                             /\ i < Len(domain)
                             /\ (i + 1) \notin dots
          /\ LET last == CHOOSE i \in dots : \A j \in dots : j <= i
             IN SubSeq(domain, last + 1, Len(domain)) \in KnownTlds

\* The schema of POST /signup.
SignupValid(name, email, password) ==
    /\ JoiString(name) /\ Len(name) <= NameMaxLen
    /\ JoiEmail(email)
    /\ JoiString(password) /\ Len(password) >= PasswordMinLen

\* The schema of POST /login.
LoginValid(email, password) ==
    /\ JoiEmail(email)
    /\ JoiString(password)

\* ---------------------------------------------------------------- bcrypt
\* bcrypt.hash(password, 12) with the salt it drew: the hash carries the
\* cost and the salt in clear, and a digest of the salted password (the
\* passwords here are shorter than the 72 bytes bcrypt reads).
BcryptHash(p, salt) ==
    [cost |-> SaltRounds, salt |-> salt, digest |-> <<salt, p>>]

\* BcryptCompare reading no further than the shortest password allowed.
BcryptCompare_prefix(p, h) ==
    /\ Len(p) >= PasswordMinLen
    /\ Len(h.digest[2]) >= PasswordMinLen
    /\ SubSeq(p, 1, PasswordMinLen) = SubSeq(h.digest[2], 1, PasswordMinLen)

\* bcrypt.compare(password, hash): re-hash with the hash's own cost and salt.
BcryptCompare(p, h) ==
    [cost |-> h.cost, salt |-> h.salt, digest |-> <<h.salt, p>>] = h

NoHash == [cost |-> 0, salt |-> 0, digest |-> <<0, UNDEF>>]

\* -------------------------------------------------------- users collection
NoDoc == [name |-> UNDEF, email |-> UNDEF, password |-> NoHash, user_type |-> NoRole]

\* Index of the first document with this email, 0 when there is none.
FindIdx(coll, email) ==
    IF \E i \in 1..Len(coll) : coll[i].email = email
    THEN CHOOSE i \in 1..Len(coll) :
            /\ coll[i].email = email
            /\ \A j \in 1..(i - 1) : coll[j].email # email
    ELSE 0

\* userCollection.findOne({ email }): the first match, or null.
FindOne(coll, email) ==
    IF FindIdx(coll, email) = 0 THEN NoDoc ELSE coll[FindIdx(coll, email)]

\* userCollection.insertOne(doc).
InsertOne(coll, doc) == Append(coll, doc)

\* replaceOne in the place of updateOne with $set: the document matched
\* keeps nothing but the role.
UpdateOne_replace(coll, email, role) ==
    IF FindIdx(coll, email) = 0 THEN coll
    ELSE [coll EXCEPT ![FindIdx(coll, email)] =
            [name |-> UNDEF, email |-> UNDEF, password |-> NoHash,
             user_type |-> role]]

\* updateOne called with { upsert: true }: a document is made when none
\* matches.
UpdateOne_upsert(coll, email, role) ==
    IF FindIdx(coll, email) = 0
    THEN Append(coll, [name |-> UNDEF, email |-> email, password |-> NoHash,
                       user_type |-> role])
    ELSE [coll EXCEPT ![FindIdx(coll, email)].user_type = role]

\* userCollection.updateOne({ email }, { $set: { user_type } }): the first
\* match only, nothing when there is none.
UpdateOne(coll, email, role) ==
    IF FindIdx(coll, email) = 0 THEN coll
    ELSE [coll EXCEPT ![FindIdx(coll, email)].user_type = role]

\* --------------------------------------------------------------- sessions
\* A session with no field set: what express-session hands to the first
\* request of a client, and to the first one after destroy or expiry.
EmptySession == [authenticated |-> FALSE, name |-> UNDEF, user_type |-> NoRole, email |-> UNDEF]

\* isAdmin(req)
isAdmin(s) == s.authenticated /\ s.user_type = "admin"

\* adminOnly with its role check written === for !==.
adminOnly_negated(s) ==
    IF ~s.authenticated THEN "login"
    ELSE IF s.user_type = "admin" THEN "unauthorized"
    ELSE "next"

\* adminOnly without its role check.
adminOnly_authOnly(s) == IF ~s.authenticated THEN "login" ELSE "next"

\* adminOnly with its two checks in the other order.
adminOnly_swapped(s) ==
    IF s.user_type # "admin" THEN "unauthorized"
    ELSE IF ~s.authenticated THEN "login"
    ELSE "next"

\* adminOnly(req, res, next): "login" redirects, "unauthorized" answers 403,
\* "next" runs the handler.
adminOnly(s) ==
    IF ~s.authenticated THEN "login"
    ELSE IF s.user_type # "admin" THEN "unauthorized"
    ELSE "next"

\* The four session fields signup (lines 100-103) and login (lines 210-213)
\* set.
NewSession(name, role, email) ==
    [authenticated |-> TRUE, name |-> name, user_type |-> role, email |-> email]

\* NewAccount with the default role mistaken.
NewAccount_admin(body, hashedPassword) ==
    [name |-> body.name, email |-> body.email, password |-> hashedPassword,
     user_type |-> "admin"]

\* The document signup inserts (lines 92-97).
NewAccount(body, hashedPassword) ==
    [name |-> body.name, email |-> body.email, password |-> hashedPassword,
     user_type |-> "user"]

\* EmailTaken with the query on the wrong field.
EmailTaken_name(coll, email) == \E i \in 1..Len(coll) : coll[i].name = email

\* if (existingUser) of signup (lines 86-87).
EmailTaken(coll, email) == FindIdx(coll, email) # 0

\* ------------------------------------------------------------------ state
VARIABLES
    users,      \* the users collection, in insertion order
    sessions,   \* the session of every client, as the session store holds it
    req,        \* the request a client has suspended at an await
    resp,       \* the response the last step sent, NoResp when it sent none
    hist        \* history of the run, read by the properties only

vars == <<users, sessions, req, resp, hist>>

NoBody == Body(UNDEF, UNDEF, UNDEF)

NoLocals == [name |-> UNDEF, user_type |-> NoRole]

Idle == [pc |-> "idle", body |-> NoBody, hashedPassword |-> NoHash]

NoResp == [client |-> "none", route |-> "none", body |-> NoBody, param |-> UNDEF,
           status |-> 0, kind |-> "none", arg |-> "none", locals |-> NoLocals]

\* A response: res.redirect (302), res.render or res.send (200 unless
\* res.status was called), to a request with this body or :email parameter.
Response(c, route, body, param, status, kind, arg, locals) ==
    [client |-> c, route |-> route, body |-> body, param |-> param,
     status |-> status, kind |-> kind, arg |-> arg, locals |-> locals]

\* The history: the email and length of the current run of failed logins
\* and the length of the run the last login ended (okAfter); the promote
\* just answered, its client, target and the target's role before it, and
\* whether the demote of the same target by the same client followed
\* (rtStage); and for every client what last set its session (phase:
\* signup, login, logout, selfDemote, or none); the role the session had
\* before the login just accepted (roleBefore); whether the logout just
\* answered came on a session a logout had emptied (again), and the email
\* the session had at that logout (outEmail).
NoHist == [streakEmail |-> UNDEF, streak |-> 0, okAfter |-> 0,
           rtStage |-> "none", rtClient |-> "none", rtTarget |-> UNDEF,
           rtBefore |-> NoRole, roleBefore |-> NoRole, again |-> FALSE, outEmail |-> UNDEF,
           phase |-> [c \in Clients |-> "none"]]

\* The account an operator seeds by hand: no route creates an admin.
SeedAdmin ==
    [name |-> NameRoot, email |-> EmailA, password |-> BcryptHash(Pw1, 1),
     user_type |-> "admin"]

Init ==
    /\ users \in {<<>>, <<SeedAdmin>>}
    /\ sessions = [c \in Clients |-> EmptySession]
    /\ req = [c \in Clients |-> Idle]
    /\ resp = NoResp
    /\ hist = NoHist

\* The client has no request suspended, and the last response has left.
Ready(c) == req[c].pc = "idle" /\ resp = NoResp

\* Number of signups suspended before their insert.
PendingSignups == Cardinality({c \in Clients : req[c].pc = "signup_insert"})

\* The history with the marks of the step before dropped.
Forget ==
    [hist EXCEPT !.okAfter = 0, !.rtStage = "none", !.rtClient = "none",
                 !.rtTarget = UNDEF, !.rtBefore = NoRole, !.roleBefore = NoRole,
                 !.again = FALSE, !.outEmail = UNDEF]

\* res.end: the response has left.
Sent ==
    /\ resp # NoResp
    /\ resp' = NoResp
    /\ hist' = IF hist.rtStage = "promoted" THEN [hist EXCEPT !.okAfter = 0] ELSE Forget
    /\ UNCHANGED <<users, sessions, req>>

\* -------------------------------------------------------------- GET pages
\* GET /signup (lines 61-63).
GetSignup(c) ==
    /\ Ready(c)
    /\ resp' = Response(c, "GET /signup", NoBody, UNDEF, 200, "render", "signup", NoLocals)
    /\ hist' = Forget
    /\ UNCHANGED <<users, sessions, req>>

\* GET /login (lines 141-143).
GetLogin(c) ==
    /\ Ready(c)
    /\ resp' = Response(c, "GET /login", NoBody, UNDEF, 200, "render", "login", NoLocals)
    /\ hist' = Forget
    /\ UNCHANGED <<users, sessions, req>>

\* GET / (lines 236-240): name and user_type of the session, or null.
Root(c) ==
    /\ Ready(c)
    /\ resp' = Response(c, "GET /", NoBody, UNDEF, 200, "render", "index",
                        [name |-> sessions[c].name, user_type |-> sessions[c].user_type])
    /\ hist' = Forget
    /\ UNCHANGED <<users, sessions, req>>

\* Any unmatched route (lines 243-245).
NotFound(c) ==
    /\ Ready(c)
    /\ resp' = Response(c, "unmatched", NoBody, UNDEF, 404, "render", "404", NoLocals)
    /\ hist' = Forget
    /\ UNCHANGED <<users, sessions, req>>

\* Members with the test of the flag written as an assignment.
Members_assign(c) ==
    /\ Ready(c)
    /\ sessions' = [sessions EXCEPT ![c].authenticated = TRUE]
    /\ resp' = Response(c, "GET /members", NoBody, UNDEF, 200, "render", "members",
                        [name |-> IF sessions[c].name \in {UNDEF, EmptyStr}
                                  THEN <<"G", "u", "e", "s", "t">>
                                  ELSE sessions[c].name,
                         user_type |-> NoRole])
    /\ hist' = Forget
    /\ UNCHANGED <<users, req>>

\* GET /members (lines 109-122).
Members(c) ==
    /\ Ready(c)
    /\ IF ~sessions[c].authenticated
       THEN resp' = Response(c, "GET /members", NoBody, UNDEF, 302, "redirect", "/", NoLocals)
       ELSE resp' = Response(c, "GET /members", NoBody, UNDEF, 200, "render", "members",
                             [name |-> IF sessions[c].name \in {UNDEF, EmptyStr}
                                       THEN <<"G", "u", "e", "s", "t">>
                                       ELSE sessions[c].name,
                              user_type |-> NoRole])
    /\ hist' = Forget
    /\ UNCHANGED <<users, sessions, req>>

\* ----------------------------------------------------------- POST /signup
\* SignupFind with the existence check moved ahead of the validation.
SignupFind_findFirst(c, body, salt) ==
    /\ Ready(c)
    /\ Len(users) + PendingSignups < MaxUsers
    /\ IF EmailTaken(users, body.email)
       THEN /\ resp' = Response(c, "POST /signup", body, UNDEF, 200, "render",
                                "signup:emailTaken", NoLocals)
            /\ hist' = Forget
            /\ UNCHANGED <<users, sessions, req>>
       ELSE IF ~SignupValid(body.name, body.email, body.password)
       THEN /\ resp' = Response(c, "POST /signup", body, UNDEF, 200, "send",
                                "validationError", NoLocals)
            /\ hist' = Forget
            /\ UNCHANGED <<users, sessions, req>>
       ELSE /\ req' = [req EXCEPT ![c] =
                         [pc |-> "signup_insert", body |-> body,
                          hashedPassword |-> BcryptHash(body.password, salt)]]
            /\ hist' = Forget
            /\ UNCHANGED <<users, sessions, resp>>

\* Lines 67-89: validation, bcrypt.hash with the salt it draws, and the
\* existence check.
SignupFind(c, body, salt) ==
    /\ Ready(c)
    /\ Len(users) + PendingSignups < MaxUsers
    /\ IF ~SignupValid(body.name, body.email, body.password)
       THEN /\ resp' = Response(c, "POST /signup", body, UNDEF, 200, "send",
                                "validationError", NoLocals)
            /\ hist' = Forget
            /\ UNCHANGED <<users, sessions, req>>
       ELSE IF EmailTaken(users, body.email)
       THEN /\ resp' = Response(c, "POST /signup", body, UNDEF, 200, "render",
                                "signup:emailTaken", NoLocals)
            /\ hist' = Forget
            /\ UNCHANGED <<users, sessions, req>>
       ELSE /\ req' = [req EXCEPT ![c] =
                         [pc |-> "signup_insert", body |-> body,
                          hashedPassword |-> BcryptHash(body.password, salt)]]
            /\ hist' = Forget
            /\ UNCHANGED <<users, sessions, resp>>

\* Lines 92-106: the insert, the session and the redirect.
SignupInsert(c) ==
    /\ req[c].pc = "signup_insert"
    /\ resp = NoResp
    /\ users' = InsertOne(users, NewAccount(req[c].body, req[c].hashedPassword))
    /\ sessions' = [sessions EXCEPT ![c] =
                      NewSession(req[c].body.name, "user", req[c].body.email)]
    /\ resp' = Response(c, "POST /signup", req[c].body, UNDEF, 302, "redirect",
                        "/members", NoLocals)
    /\ req' = [req EXCEPT ![c] = Idle]
    /\ hist' = [Forget EXCEPT !.phase[c] = "signup"]

\* ------------------------------------------------------------ POST /login
\* History of the failed logins: the email of the current run of
\* consecutive failures and its length, capped.
Failed(email) ==
    [Forget EXCEPT !.streakEmail = email,
                   !.streak = IF hist.streakEmail = email
                              THEN (IF hist.streak < MaxFails THEN hist.streak + 1 ELSE MaxFails)
                              ELSE 1]

\* LoginFail dropping the session the client had.
LoginFail_logout(c, body, arg) ==
    /\ resp' = Response(c, "POST /login", body, UNDEF, 200, "render", arg, NoLocals)
    /\ hist' = IF arg = "error:validation" THEN Forget ELSE Failed(body.email)
    /\ sessions' = [sessions EXCEPT ![c] = EmptySession]
    /\ UNCHANGED <<users, req>>

\* A login turned down (lines 182-207): the error page, nothing else.
LoginFail(c, body, arg) ==
    /\ resp' = Response(c, "POST /login", body, UNDEF, 200, "render", arg, NoLocals)
    /\ hist' = IF arg = "error:validation" THEN Forget ELSE Failed(body.email)
    /\ UNCHANGED <<users, sessions, req>>

\* A login accepted (lines 209-215): the session takes the fields of the
\* document found.
LoginOk(c, body, user) ==
    /\ sessions' = [sessions EXCEPT ![c] = NewSession(user.name, user.user_type, user.email)]
    /\ resp' = Response(c, "POST /login", body, UNDEF, 302, "redirect", "/", NoLocals)
    /\ hist' = [Forget EXCEPT
                  !.okAfter = IF hist.streakEmail = body.email THEN hist.streak ELSE 0,
                  !.streakEmail = UNDEF, !.streak = 0,
                  !.roleBefore = sessions[c].user_type,
                  !.phase[c] = "login"]
    /\ UNCHANGED <<users, req>>

\* Lines 171-216.  findOne is the handler's only access to the collection
\* and the session it writes afterwards is the requesting client's own, so
\* the handler acts at the instant of its findOne.
LoginPost(c, body) ==
    /\ Ready(c)
    /\ LET user == FindOne(users, body.email)
       IN IF ~LoginValid(body.email, body.password)
          THEN LoginFail(c, body, "error:validation")
          ELSE IF FindIdx(users, body.email) = 0
          THEN LoginFail(c, body, "error:noAccount")
          ELSE IF ~BcryptCompare(body.password, user.password)
          THEN LoginFail(c, body, "error:incorrectPassword")
          ELSE LoginOk(c, body, user)

\* ------------------------------------------------------------- GET /logout
\* Logout answering without destroying the session.
Logout_keep(c) ==
    /\ Ready(c)
    /\ resp' = Response(c, "GET /logout", NoBody, UNDEF, 200, "render", "logout", NoLocals)
    /\ hist' = [Forget EXCEPT !.phase[c] = "logout"]
    /\ UNCHANGED <<users, sessions, req>>

\* Logout ending every session opened for the account.
Logout_account(c) ==
    /\ Ready(c)
    /\ sessions' = [o \in Clients |->
                      IF o = c \/ sessions[o].email = sessions[c].email
                      THEN EmptySession ELSE sessions[o]]
    /\ resp' = Response(c, "GET /logout", NoBody, UNDEF, 200, "render", "logout", NoLocals)
    /\ hist' = [Forget EXCEPT !.phase[c] = "logout",
                              !.again = (hist.phase[c] = "logout"),
                              !.outEmail = sessions[c].email]
    /\ UNCHANGED <<users, req>>

\* Logout clearing the flag in the place of destroying the session.
Logout_flag(c) ==
    /\ Ready(c)
    /\ sessions' = [sessions EXCEPT ![c].authenticated = FALSE]
    /\ resp' = Response(c, "GET /logout", NoBody, UNDEF, 200, "render", "logout", NoLocals)
    /\ hist' = [Forget EXCEPT !.phase[c] = "logout",
                              !.again = (hist.phase[c] = "logout"),
                              !.outEmail = sessions[c].email]
    /\ UNCHANGED <<users, req>>

\* Logout sending a session that is not authenticated back to the home
\* page.
Logout_guarded(c) ==
    /\ Ready(c)
    /\ IF ~sessions[c].authenticated
       THEN /\ resp' = Response(c, "GET /logout", NoBody, UNDEF, 302, "redirect", "/", NoLocals)
            /\ hist' = Forget
            /\ UNCHANGED sessions
       ELSE /\ sessions' = [sessions EXCEPT ![c] = EmptySession]
            /\ resp' = Response(c, "GET /logout", NoBody, UNDEF, 200, "render", "logout", NoLocals)
            /\ hist' = [Forget EXCEPT !.phase[c] = "logout"]
    /\ UNCHANGED <<users, req>>

\* Lines 126-138, destroy succeeds: the session is gone and the client's
\* next request gets an empty one.
Logout(c) ==
    /\ Ready(c)
    /\ sessions' = [sessions EXCEPT ![c] = EmptySession]
    /\ resp' = Response(c, "GET /logout", NoBody, UNDEF, 200, "render", "logout", NoLocals)
    /\ hist' = [Forget EXCEPT !.phase[c] = "logout",
                              !.again = (hist.phase[c] = "logout"),
                              !.outEmail = sessions[c].email]
    /\ UNCHANGED <<users, req>>

\* Lines 130-133, the session store fails: whether the session is still
\* stored is the store's business.
LogoutError(c, destroyed) ==
    /\ Ready(c)
    /\ sessions' = IF destroyed THEN [sessions EXCEPT ![c] = EmptySession] ELSE sessions
    /\ resp' = Response(c, "GET /logout", NoBody, UNDEF, 500, "send", "Error logging out.", NoLocals)
    /\ hist' = IF destroyed THEN [Forget EXCEPT !.phase[c] = "none"] ELSE Forget
    /\ UNCHANGED <<users, req>>

\* The session store drops a session at the end of its cookie's maxAge
\* (line 54).
Expire(c) ==
    /\ Ready(c)
    /\ sessions[c] # EmptySession
    /\ sessions' = [sessions EXCEPT ![c] = EmptySession]
    /\ hist' = [Forget EXCEPT !.phase[c] = "none"]
    /\ UNCHANGED <<users, req, resp>>

\* ------------------------------------------------------------ admin routes
\* What adminOnly answers when it does not call next (lines 32-39).
Denied(c, route, param) ==
    IF adminOnly(sessions[c]) = "login"
    THEN Response(c, route, NoBody, param, 302, "redirect", "/login", NoLocals)
    ELSE Response(c, route, NoBody, param, 403, "render", "unauthorized", NoLocals)

\* Admin with the gate's test of the role written as an assignment.
Admin_assign(c) ==
    /\ Ready(c)
    /\ IF ~sessions[c].authenticated
       THEN /\ resp' = Denied(c, "GET /admin", UNDEF)
            /\ UNCHANGED sessions
       ELSE /\ sessions' = [sessions EXCEPT ![c].user_type = "admin"]
            /\ resp' = Response(c, "GET /admin", NoBody, UNDEF, 200, "render", "admin", NoLocals)
    /\ hist' = Forget
    /\ UNCHANGED <<users, req>>

\* GET /admin (lines 146-149).
Admin(c) ==
    /\ Ready(c)
    /\ IF adminOnly(sessions[c]) # "next"
       THEN resp' = Denied(c, "GET /admin", UNDEF)
       ELSE resp' = Response(c, "GET /admin", NoBody, UNDEF, 200, "render", "admin", NoLocals)
    /\ hist' = Forget
    /\ UNCHANGED <<users, sessions, req>>

\* SelfUpdate refreshing every session opened for the target email.
SelfUpdate_all(c, email, role) ==
    [o \in Clients |-> IF sessions[o].email = email
                       THEN [sessions[o] EXCEPT !.user_type = role]
                       ELSE sessions[o]]

\* SelfUpdate left out.
SelfUpdate_none(c, email, role) == sessions

\* The self-update of promote (lines 154-156) and demote (lines 163-165).
SelfUpdate(c, email, role) ==
    IF sessions[c].email = email
    THEN [sessions EXCEPT ![c].user_type = role]
    ELSE sessions

\* GET /promote/:email (lines 152-159).
Promote(c, email) ==
    /\ Ready(c)
    /\ IF adminOnly(sessions[c]) # "next"
       THEN /\ resp' = Denied(c, "GET /promote", email)
            /\ hist' = Forget
            /\ UNCHANGED <<users, sessions, req>>
       ELSE /\ sessions' = SelfUpdate(c, email, "admin")
            /\ users' = UpdateOne(users, email, "admin")
            /\ resp' = Response(c, "GET /promote", NoBody, email, 302, "redirect",
                                "/admin", NoLocals)
            /\ hist' = [Forget EXCEPT !.rtStage = "promoted", !.rtClient = c,
                                      !.rtTarget = email,
                                      !.rtBefore = FindOne(users, email).user_type]
            /\ UNCHANGED req

\* Demote copied from promote with the role left as it was.
Demote_admin(c, email) ==
    /\ Ready(c)
    /\ IF adminOnly(sessions[c]) # "next"
       THEN /\ resp' = Denied(c, "GET /demote", email)
            /\ hist' = Forget
            /\ UNCHANGED <<users, sessions, req>>
       ELSE /\ sessions' = SelfUpdate(c, email, "user")
            /\ users' = UpdateOne(users, email, "admin")
            /\ resp' = Response(c, "GET /demote", NoBody, email, 302, "redirect",
                                "/admin", NoLocals)
            /\ hist' = [(IF /\ hist.rtStage = "promoted"
                            /\ hist.rtClient = c
                            /\ hist.rtTarget = email
                         THEN [hist EXCEPT !.okAfter = 0, !.rtStage = "roundtrip"]
                         ELSE Forget)
                        EXCEPT !.phase[c] = IF sessions[c].email = email
                                            THEN "selfDemote"
                                            ELSE hist.phase[c]]
            /\ UNCHANGED req

\* GET /demote/:email (lines 161-168).
Demote(c, email) ==
    /\ Ready(c)
    /\ IF adminOnly(sessions[c]) # "next"
       THEN /\ resp' = Denied(c, "GET /demote", email)
            /\ hist' = Forget
            /\ UNCHANGED <<users, sessions, req>>
       ELSE /\ sessions' = SelfUpdate(c, email, "user")
            /\ users' = UpdateOne(users, email, "user")
            /\ resp' = Response(c, "GET /demote", NoBody, email, 302, "redirect",
                                "/admin", NoLocals)
            /\ hist' = [(IF /\ hist.rtStage = "promoted"
                            /\ hist.rtClient = c
                            /\ hist.rtTarget = email
                         THEN [hist EXCEPT !.okAfter = 0, !.rtStage = "roundtrip"]
                         ELSE Forget)
                        EXCEPT !.phase[c] = IF sessions[c].email = email
                                            THEN "selfDemote"
                                            ELSE hist.phase[c]]
            /\ UNCHANGED req

Next ==
    \/ Sent
    \/ \E c \in Clients : GetSignup(c)
    \/ \E c \in Clients : GetLogin(c)
    \/ \E c \in Clients : Root(c)
    \/ \E c \in Clients : NotFound(c)
    \/ \E c \in Clients : Members(c)
    \/ \E c \in Clients, b \in SignupBodies, s \in Salts : SignupFind(c, b, s)
    \/ \E c \in Clients : SignupInsert(c)
    \/ \E c \in Clients, b \in LoginBodies : LoginPost(c, b)
    \/ \E c \in Clients : Logout(c)
    \/ \E c \in Clients, d \in BOOLEAN : LogoutError(c, d)
    \/ \E c \in Clients : Expire(c)
    \/ \E c \in Clients : Admin(c)
    \/ \E c \in Clients, e \in Targets : Promote(c, e)
    \/ \E c \in Clients, e \in Targets : Demote(c, e)

Spec == Init /\ [][Next]_vars

\* ============================================================= properties
\* The step sends client c a response to this route.
Answers(c, route) == resp = NoResp /\ resp'.client = c /\ resp'.route = route

\* The password is the one this hash was made from.
Verifies(p, h) == \E s \in Salts : h = BcryptHash(p, s)

\* Number of documents of the collection with this email.
Count(coll, email) == Cardinality({i \in 1..Len(coll) : coll[i].email = email})

\* C1: a POST /signup whose payload passes validation and whose email the
\* existence check does not find is not turned down; its insert appends
\* exactly one document, with that email, the name, a hash of the password
\* and role user, authenticates the requesting session with that name, email
\* and role user, and redirects to /members.
C1_SignupCreatesAccount ==
    [][\A c \in Clients :
         /\ (/\ Answers(c, "POST /signup")
             /\ req[c].pc = "idle"
             /\ SignupValid(resp'.body.name, resp'.body.email, resp'.body.password))
            => FindIdx(users, resp'.body.email) # 0
         /\ (req[c].pc = "signup_insert" /\ req'[c] # req[c])
            => LET b == req[c].body
                   d == users'[Len(users')]
               IN /\ SignupValid(b.name, b.email, b.password)
                  /\ Len(users') = Len(users) + 1
                  /\ \A i \in 1..Len(users) : users'[i] = users[i]
                  /\ Count(users', b.email) = Count(users, b.email) + 1
                  /\ d.name = b.name /\ d.email = b.email /\ d.user_type = "user"
                  /\ Verifies(b.password, d.password)
                  /\ sessions'[c] = [authenticated |-> TRUE, name |-> b.name,
                                     user_type |-> "user", email |-> b.email]
                  /\ \A o \in Clients \ {c} : sessions'[o] = sessions[o]
                  /\ Answers(c, "POST /signup")
                  /\ resp'.status = 302 /\ resp'.kind = "redirect" /\ resp'.arg = "/members"
      ]_vars

\* A signup has just succeeded: its account is stored and its session open.
C1_Witness ==
    /\ resp.route = "POST /signup" /\ resp.status = 302
    /\ FindIdx(users, resp.body.email) # 0
    /\ sessions[resp.client].authenticated
    /\ sessions[resp.client].email = resp.body.email

\* C2, as claimed: every POST /signup whose email is in the collection is
\* answered with the email-taken page and changes neither the collection nor
\* the session.
C2_Original ==
    [][\A c \in Clients :
         (/\ Answers(c, "POST /signup")
          /\ req[c].pc = "idle"
          /\ FindIdx(users, resp'.body.email) # 0)
         => /\ resp'.arg = "signup:emailTaken"
            /\ users' = users
            /\ sessions' = sessions
      ]_vars

\* C2, amended: a POST /signup whose payload passes validation and whose
\* email is in the collection is answered with the email-taken page (not the
\* validation error), is never suspended for an insert, and changes neither
\* the collection nor any session.
C2_EmailTaken ==
    [][\A c \in Clients :
         /\ (/\ Answers(c, "POST /signup")
             /\ req[c].pc = "idle"
             /\ SignupValid(resp'.body.name, resp'.body.email, resp'.body.password)
             /\ FindIdx(users, resp'.body.email) # 0)
            => /\ resp'.status = 200 /\ resp'.kind = "render"
               /\ resp'.arg = "signup:emailTaken"
               /\ users' = users
               /\ sessions' = sessions
         /\ (req[c].pc = "idle" /\ req'[c].pc = "signup_insert")
            => /\ FindIdx(users, req'[c].body.email) = 0
               /\ users' = users
               /\ sessions' = sessions
      ]_vars

\* A valid signup has just been turned down because its email is taken.
C2_Witness ==
    /\ resp.route = "POST /signup" /\ resp.arg = "signup:emailTaken"
    /\ FindIdx(users, resp.body.email) # 0
    /\ SignupValid(resp.body.name, resp.body.email, resp.body.password)

\* C3: the collection holds at most one document per email.
C3_EmailUnique ==
    \A i, j \in 1..Len(users) : users[i].email = users[j].email => i = j

\* The routes behind adminOnly.
AdminRoutes == {"GET /admin", "GET /promote", "GET /demote"}

\* The collection has a document with this email.
Exists(coll, email) == \E i \in 1..Len(coll) : coll[i].email = email

\* The response is a redirect to this location.
Redirects(r, location) == r.status = 302 /\ r.kind = "redirect" /\ r.arg = location

\* The response is the 403 page.
Unauthorized(r) == r.status = 403 /\ r.kind = "render" /\ r.arg = "unauthorized"

\* C4: a POST /login with a valid payload redirects to / if and only if the
\* collection has an account for the email and the password is the one the
\* account's hash was made from; the session then carries the name, email
\* and role stored in that account; with no account the answer is the
\* no-account error, with another password the incorrect-password error.
\* The account of an email is the document findOne returns for it.
C4_LoginIff ==
    [][\A c \in Clients :
         (/\ Answers(c, "POST /login")
          /\ LoginValid(resp'.body.email, resp'.body.password))
         => LET b == resp'.body
                a == FindOne(users, b.email)
            IN /\ Redirects(resp', "/")
                    <=> (Exists(users, b.email) /\ Verifies(b.password, a.password))
               /\ Redirects(resp', "/")
                    => /\ a.email = b.email
                       /\ sessions'[c] = [authenticated |-> TRUE, name |-> a.name,
                                          user_type |-> a.user_type, email |-> b.email]
                       /\ users' = users
               /\ ~Exists(users, b.email)
                    => resp'.status = 200 /\ resp'.arg = "error:noAccount"
               /\ (Exists(users, b.email) /\ ~Verifies(b.password, a.password))
                    => resp'.status = 200 /\ resp'.arg = "error:incorrectPassword"
      ]_vars

\* An admin has just logged in: the session carries the account's role.
C4_Witness ==
    /\ resp.route = "POST /login" /\ Redirects(resp, "/")
    /\ sessions[resp.client].email = resp.body.email
    /\ sessions[resp.client].user_type = "admin"
    /\ FindOne(users, resp.body.email).user_type = "admin"

\* C5: a login turned down for an unknown email or a wrong password changes
\* neither the collection nor any session; and a login with the password of
\* the account succeeds however many failed logins for that email came
\* right before it.
C5_NoLockout ==
    [][\A c \in Clients :
         Answers(c, "POST /login")
         => LET b == resp'.body
            IN /\ resp'.arg \in {"error:noAccount", "error:incorrectPassword"}
                    => /\ users' = users
                       /\ sessions' = sessions
                       /\ req' = req
               /\ (/\ hist.streakEmail = b.email
                   /\ hist.streak >= 1
                   /\ Exists(users, b.email)
                   /\ Verifies(b.password, FindOne(users, b.email).password))
                    => /\ Redirects(resp', "/")
                       /\ sessions'[c].authenticated
                       /\ sessions'[c].email = b.email
      ]_vars

\* A login has just succeeded after MaxFails failed ones for its email.
C5_Witness ==
    /\ resp.route = "POST /login" /\ Redirects(resp, "/")
    /\ hist.okAfter = MaxFails
    /\ sessions[resp.client].authenticated

\* C6: from a successful logout of a session until its next successful
\* signup or login, the session is the empty one and its requests to
\* /members, /admin, /promote and /demote get what an anonymous session
\* gets: the redirect to / or to /login, with no account and no session
\* changed.
C6_LogoutAnonymous ==
    [][\A c \in Clients :
         hist.phase[c] = "logout"
         => /\ sessions[c] = EmptySession
            /\ Answers(c, "GET /members")
                 => /\ Redirects(resp', "/")
                    /\ users' = users /\ sessions' = sessions
            /\ \A r \in AdminRoutes :
                 Answers(c, r)
                 => /\ Redirects(resp', "/login")
                    /\ users' = users /\ sessions' = sessions
      ]_vars

\* A session that logged out has just been refused the demote of an admin.
C6_Witness ==
    \E c \in Clients :
       /\ hist.phase[c] = "logout"
       /\ resp.client = c /\ resp.route = "GET /demote"
       /\ Redirects(resp, "/login")
       /\ FindOne(users, resp.param).user_type = "admin"

\* C7: a promote or demote from a session that is not an authenticated
\* admin's is answered by the gate (redirect to /login or the 403 page) and
\* changes no account and no session.
C7_NonAdminDenied ==
    [][\A c \in Clients : \A r \in {"GET /promote", "GET /demote"} :
         (/\ Answers(c, r)
          /\ ~(sessions[c].authenticated /\ sessions[c].user_type = "admin"))
         => /\ Redirects(resp', "/login") \/ Unauthorized(resp')
            /\ users' = users
            /\ sessions' = sessions
      ]_vars

\* An authenticated user has just been refused the promotion of an
\* account that is still a user.
C7_Witness ==
    /\ resp.route = "GET /promote" /\ Unauthorized(resp)
    /\ sessions[resp.client].authenticated
    /\ FindOne(users, resp.param).user_type = "user"

\* C8, as claimed: after promote(target) immediately followed by
\* demote(target) from the same admin session, the target account has the
\* role it had before the promote.
C8_Original ==
    (hist.rtStage = "roundtrip" /\ hist.rtBefore # NoRole)
    => FindOne(users, hist.rtTarget).user_type = hist.rtBefore

\* C8, amended: after promote(target) immediately followed by
\* demote(target) from the same admin session, the target account has role
\* user, whatever its role before the promote.
C8_RoundTripIsUser ==
    (hist.rtStage = "roundtrip" /\ hist.rtBefore # NoRole)
    => FindOne(users, hist.rtTarget).user_type = "user"

\* A promote and demote of an account that was an admin have just ended.
C8_Witness ==
    /\ hist.rtStage = "roundtrip" /\ hist.rtBefore = "admin"
    /\ resp.route = "GET /demote" /\ Redirects(resp, "/admin")
    /\ Exists(users, hist.rtTarget)

\* C9: a demote of the acting admin's own email sets the acting session's
\* role to user in that request, and from then until the session logs in,
\* signs up, logs out or expires, its requests to /admin, /promote and
\* /demote get the 403 page and change no account.
C9_SelfDemote ==
    [][\A c \in Clients :
         /\ (/\ Answers(c, "GET /demote")
             /\ sessions[c].authenticated /\ sessions[c].user_type = "admin"
             /\ sessions[c].email = resp'.param)
            => /\ Redirects(resp', "/admin")
               /\ sessions'[c] = [sessions[c] EXCEPT !.user_type = "user"]
               /\ hist'.phase[c] = "selfDemote"
         /\ hist.phase[c] = "selfDemote"
            => \A r \in AdminRoutes :
                 Answers(c, r)
                 => /\ Unauthorized(resp')
                    /\ users' = users /\ sessions' = sessions
      ]_vars

\* A session that demoted itself has just been refused a promote.
C9_Witness ==
    \E c \in Clients :
       /\ hist.phase[c] = "selfDemote"
       /\ resp.client = c /\ resp.route = "GET /promote"
       /\ Unauthorized(resp)

\* C10: what the gate answers depends on the session only.  On /admin,
\* /promote and /demote an unauthenticated session is redirected to /login,
\* an authenticated one whose role is not admin gets the 403 page, an
\* authenticated admin reaches the handler; on /members an unauthenticated
\* session is redirected to / and an authenticated one gets the page.  A
\* session opened by signup gets the 403 page on /admin.
C10_RouteGate ==
    [][\A c \in Clients :
         /\ \A r \in AdminRoutes :
              Answers(c, r)
              => IF ~sessions[c].authenticated
                 THEN Redirects(resp', "/login") /\ users' = users /\ sessions' = sessions
                 ELSE IF sessions[c].user_type # "admin"
                 THEN Unauthorized(resp') /\ users' = users /\ sessions' = sessions
                 ELSE IF r = "GET /admin"
                 THEN resp'.status = 200 /\ resp'.kind = "render" /\ resp'.arg = "admin"
                 ELSE Redirects(resp', "/admin")
         /\ Answers(c, "GET /members")
              => IF ~sessions[c].authenticated
                 THEN Redirects(resp', "/")
                 ELSE resp'.status = 200 /\ resp'.kind = "render" /\ resp'.arg = "members"
         /\ (hist.phase[c] = "signup" /\ Answers(c, "GET /admin"))
              => Unauthorized(resp')
      ]_vars

\* A session opened by signup has just got the 403 page on /admin.
C10_Witness ==
    \E c \in Clients :
       /\ hist.phase[c] = "signup"
       /\ resp.client = c /\ resp.route = "GET /admin"
       /\ Unauthorized(resp)
       /\ sessions[c].authenticated

\* The step is the session store dropping a session: no response is sent.
Expires(c) ==
    /\ resp = NoResp /\ resp' = NoResp /\ req' = req /\ users' = users
    /\ sessions[c] # EmptySession /\ sessions'[c] = EmptySession

\* C11: the authenticated flag of a session goes from false to true only in
\* the step that answers its POST /signup or POST /login with the redirect
\* of success, and from true to false only in a step of its GET /logout or
\* in the step in which the store drops it; a failed signup or login,
\* /members, the admin routes, / and an unmatched route leave every flag as
\* it was.
C11_FlagChanges ==
    [][\A c \in Clients :
         /\ (~sessions[c].authenticated /\ sessions'[c].authenticated)
            => /\ Answers(c, "POST /signup") \/ Answers(c, "POST /login")
               /\ resp'.status = 302
         /\ (sessions[c].authenticated /\ ~sessions'[c].authenticated)
            => Answers(c, "GET /logout") \/ Expires(c)
         /\ (\E o \in Clients :
                /\ resp = NoResp /\ resp'.client = o
                /\ \/ resp'.route \in {"GET /members", "GET /", "unmatched",
                                       "GET /signup", "GET /login"} \cup AdminRoutes
                   \/ /\ resp'.route \in {"POST /signup", "POST /login"}
                      /\ resp'.status # 302)
            => sessions'[c].authenticated = sessions[c].authenticated
      ]_vars

\* A signup has just been turned down for an anonymous session, which is
\* still anonymous, while the other session is authenticated.
C11_Witness ==
    \E c \in Clients, o \in Clients :
       /\ resp.client = c /\ resp.route = "POST /signup" /\ resp.status # 302
       /\ ~sessions[c].authenticated
       /\ sessions[o].authenticated

\* The session of c stays authenticated in the step and its role goes from
\* user to admin.
UserToAdmin(c) ==
    /\ sessions[c].authenticated /\ sessions[c].user_type = "user"
    /\ sessions'[c].authenticated /\ sessions'[c].user_type = "admin"

\* C12, as claimed: the role of a session that stays authenticated goes from
\* user to admin only in the step of its own GET /promote of its own email.
C12_Original ==
    [][\A c \in Clients :
         UserToAdmin(c)
         => /\ Answers(c, "GET /promote")
            /\ resp'.param = sessions[c].email
      ]_vars

\* C12, amended: the role of a session that stays authenticated goes from
\* user to admin only in the step that accepts a POST /login on that session
\* with the email and password of an account whose role is admin, and the
\* session takes that account's email; no other request on the session,
\* POST /signup and GET /promote included, does it.
C12_UserToAdminByLogin ==
    [][\A c \in Clients :
         UserToAdmin(c)
         => /\ Answers(c, "POST /login")
            /\ Redirects(resp', "/")
            /\ Exists(users, resp'.body.email)
            /\ FindOne(users, resp'.body.email).user_type = "admin"
            /\ BcryptCompare(resp'.body.password, FindOne(users, resp'.body.email).password)
            /\ sessions'[c].email = resp'.body.email
            /\ users' = users
      ]_vars

\* A login has just been accepted on a session whose role was user, and the
\* session's role is admin.
C12_Witness ==
    \E c \in Clients :
       /\ resp.client = c /\ resp.route = "POST /login" /\ resp.status = 302
       /\ hist.roleBefore = "user"
       /\ sessions[c].authenticated /\ sessions[c].user_type = "admin"

\* The session is authenticated with role admin while the account of its
\* email has role user in the collection.
Stale(s) ==
    /\ s.authenticated /\ s.user_type = "admin"
    /\ Exists(users, s.email)
    /\ FindOne(users, s.email).user_type = "user"

\* C13: a step answering GET /promote or GET /demote leaves every session
\* but the requesting one as it was, changes nothing but the role in the
\* requesting one, and changes that only if the target is the session's own
\* email.  So a session with role admin whose account has role user in the
\* collection still passes the gate of the admin routes, and it keeps role
\* admin in every step but its own accepted login or signup, its own
\* logout, its own demote of its own email, and its expiry.
C13_OtherSessionsKeepRole ==
    [][\A c \in Clients :
         /\ (Answers(c, "GET /promote") \/ Answers(c, "GET /demote"))
            => /\ \A o \in Clients \ {c} : sessions'[o] = sessions[o]
               /\ sessions'[c] = [sessions[c] EXCEPT !.user_type = sessions'[c].user_type]
               /\ resp'.param # sessions[c].email => sessions'[c] = sessions[c]
         /\ Stale(sessions[c])
            => /\ Answers(c, "GET /admin")
                  => resp'.status = 200 /\ resp'.kind = "render" /\ resp'.arg = "admin"
               /\ (Answers(c, "GET /promote") \/ Answers(c, "GET /demote"))
                  => /\ Redirects(resp', "/admin")
                     /\ users' = UpdateOne(users, resp'.param,
                                           IF resp'.route = "GET /promote"
                                           THEN "admin" ELSE "user")
               /\ sessions'[c].user_type # "admin"
                  => \/ /\ Answers(c, "POST /login") \/ Answers(c, "POST /signup")
                        /\ resp'.status = 302
                     \/ Answers(c, "GET /logout")
                     \/ Answers(c, "GET /demote") /\ resp'.param = sessions[c].email
                     \/ Expires(c)
      ]_vars

\* A session with role admin whose account has role user in the collection
\* has just been served the admin page.
C13_Witness ==
    \E c \in Clients :
       /\ resp.client = c /\ resp.route = "GET /admin" /\ resp.status = 200
       /\ Stale(sessions[c])

\* The signup payload breaks a rule: the name missing, empty or longer than
\* 30, the email not an email, the password missing or shorter than 6.
BreaksSignupRule(b) ==
    \/ b.name = UNDEF \/ Len(b.name) = 0 \/ Len(b.name) > 30
    \/ ~JoiEmail(b.email)
    \/ b.password = UNDEF \/ Len(b.password) < 6

\* The login payload breaks a rule: the email not an email, the password
\* missing or empty.
BreaksLoginRule(b) ==
    \/ ~JoiEmail(b.email)
    \/ b.password = UNDEF \/ Len(b.password) = 0

\* C14: a POST /signup whose payload breaks a rule is answered with the
\* validation error in the step it arrives in, whatever the collection
\* holds for its email, and is never suspended for an insert; a POST /login
\* whose payload breaks a rule is answered with the validation error page,
\* whatever the collection holds; both leave the collection and every
\* session as they were.
C14_InvalidRejectedFirst ==
    [][\A c \in Clients :
         /\ (Answers(c, "POST /signup") /\ BreaksSignupRule(resp'.body))
            => /\ req[c].pc = "idle" /\ req' = req
               /\ resp'.status = 200 /\ resp'.kind = "send"
               /\ resp'.arg = "validationError"
               /\ users' = users /\ sessions' = sessions
         /\ (req[c].pc = "idle" /\ req'[c].pc = "signup_insert")
            => ~BreaksSignupRule(req'[c].body)
         /\ (Answers(c, "POST /login") /\ BreaksLoginRule(resp'.body))
            => /\ req' = req
               /\ resp'.status = 200 /\ resp'.kind = "render"
               /\ resp'.arg = "error:validation"
               /\ users' = users /\ sessions' = sessions
      ]_vars

\* A signup whose payload breaks a rule has just been answered with the
\* validation error although the collection has an account for its email,
\* on a session that is authenticated.
C14_Witness ==
    /\ resp.route = "POST /signup" /\ resp.arg = "validationError"
    /\ BreaksSignupRule(resp.body)
    /\ Exists(users, resp.body.email)
    /\ sessions[resp.client].authenticated

\* C15: a GET /promote or GET /demote that passes the admin gate and whose
\* target email has no account in the collection is answered with the
\* redirect to /admin and leaves the collection and every session as they
\* were.
C15_MissingTargetNoOp ==
    [][\A c \in Clients :
         (/\ Answers(c, "GET /promote") \/ Answers(c, "GET /demote")
          /\ isAdmin(sessions[c])
          /\ ~Exists(users, resp'.param))
         => /\ Redirects(resp', "/admin")
            /\ users' = users
            /\ sessions' = sessions
      ]_vars

\* An admin session has just been redirected to /admin by a promote whose
\* target has no account.
C15_Witness ==
    /\ resp.route = "GET /promote" /\ Redirects(resp, "/admin")
    /\ ~Exists(users, resp.param)
    /\ isAdmin(sessions[resp.client])

\* C16: whatever the session of the client holds, GET /logout is answered
\* with the logout page, or with the 500 of a failing session store and
\* nothing else; the logout page comes with the client's session empty and
\* the collection, the other sessions and the suspended requests as they
\* were; and a logout answered with the logout page on a session already
\* emptied by a logout changes nothing at all, so two logouts leave what
\* one leaves.
C16_LogoutIdempotent ==
    [][\A c \in Clients :
         Answers(c, "GET /logout")
         => /\ \/ resp'.status = 200 /\ resp'.kind = "render" /\ resp'.arg = "logout"
               \/ resp'.status = 500 /\ resp'.kind = "send"
            /\ resp'.status = 200
               => /\ sessions' = [sessions EXCEPT ![c] = EmptySession]
                  /\ users' = users /\ req' = req
            /\ (resp'.status = 200 /\ hist.phase[c] = "logout")
               => /\ sessions[c] = EmptySession
                  /\ sessions' = sessions /\ users' = users /\ req' = req
      ]_vars

\* A session a logout had emptied has just been answered the logout page
\* again, with an account in the collection.
C16_Witness ==
    \E c \in Clients :
       /\ resp.client = c /\ resp.route = "GET /logout" /\ resp.status = 200
       /\ hist.again
       /\ sessions[c] = EmptySession
       /\ Len(users) > 0

\* C17: no step removes a document of the collection or changes the
\* email, the name or the password hash of one; the role of a document
\* changes only in the step that answers the GET /promote or GET /demote
\* of an authenticated admin session with the redirect to /admin, and only
\* in the document findOne returns for the target.
C17_AccountsKept ==
    [][/\ Len(users') >= Len(users)
       /\ \A i \in 1..Len(users) :
            /\ users'[i].email = users[i].email
            /\ users'[i].name = users[i].name
            /\ users'[i].password = users[i].password
            /\ users'[i].user_type # users[i].user_type
               => \E c \in Clients :
                     /\ Answers(c, "GET /promote") \/ Answers(c, "GET /demote")
                     /\ isAdmin(sessions[c])
                     /\ Redirects(resp', "/admin")
                     /\ i = FindIdx(users, resp'.param)
      ]_vars

\* A promote has just made an admin of an account whose role was user; the
\* account still has its email and a password hash.
C17_Witness ==
    /\ resp.route = "GET /promote" /\ Redirects(resp, "/admin")
    /\ hist.rtStage = "promoted" /\ hist.rtBefore = "user"
    /\ Exists(users, resp.param)
    /\ FindOne(users, resp.param).user_type = "admin"
    /\ FindOne(users, resp.param).password # NoHash

\* No document of the collection and no session has role admin.
NoAdmin ==
    /\ \A i \in 1..Len(users) : users[i].user_type # "admin"
    /\ \A c \in Clients : sessions[c].user_type # "admin"

\* C18: no step leads from a state in which no account and no session has
\* role admin to a state in which one has; so from such a state no
\* sequence of signups, logins, logouts, promotes and demotes makes an
\* admin.
C18_NoEscalation ==
    [][NoAdmin => NoAdmin']_vars

\* No account and no session has role admin, the collection is full, and an
\* authenticated session has just been refused the promote of its own
\* email.
C18_Witness ==
    \E c \in Clients :
       /\ NoAdmin
       /\ Len(users) = MaxUsers
       /\ sessions[c].authenticated
       /\ resp.client = c /\ resp.route = "GET /promote"
       /\ resp.param = sessions[c].email
       /\ Unauthorized(resp)

\* C19: in every state a session that is authenticated has its name, its
\* email and a role of user or admin, and a session that is not has none of
\* the three; and the name and the role GET / hands to the index page are
\* set exactly when the session asking is authenticated.
C19_FieldsIffAuthenticated ==
    /\ \A c \in Clients :
         IF sessions[c].authenticated
         THEN /\ sessions[c].name # UNDEF
              /\ sessions[c].email # UNDEF
              /\ sessions[c].user_type \in {"user", "admin"}
         ELSE /\ sessions[c].name = UNDEF
              /\ sessions[c].email = UNDEF
              /\ sessions[c].user_type = NoRole
    /\ resp.route = "GET /"
       => /\ resp.locals.name # UNDEF <=> sessions[resp.client].authenticated
          /\ resp.locals.user_type # NoRole <=> sessions[resp.client].authenticated

\* GET / has just handed the index page the name and role of an
\* authenticated session, while the other session has logged out.
C19_Witness ==
    \E c \in Clients, o \in Clients :
       /\ resp.client = c /\ resp.route = "GET /"
       /\ sessions[c].authenticated
       /\ resp.locals.name = sessions[c].name
       /\ hist.phase[o] = "logout" /\ ~sessions[o].authenticated

\* C20: a step answering GET /logout, with the logout page or with the 500,
\* leaves the collection, the suspended requests and every session but the
\* requesting one as they were, the sessions opened for the same account
\* included.
C20_LogoutFrame ==
    [][\A c \in Clients :
         Answers(c, "GET /logout")
         => /\ users' = users
            /\ req' = req
            /\ \A o \in Clients \ {c} : sessions'[o] = sessions[o]
      ]_vars

\* A session has just logged out of an account for which the other session
\* is still authenticated.
C20_Witness ==
    \E c \in Clients : \E o \in Clients \ {c} :
       /\ resp.client = c /\ resp.route = "GET /logout" /\ resp.status = 200
       /\ hist.outEmail # UNDEF
       /\ sessions[c] = EmptySession
       /\ sessions[o].authenticated /\ sessions[o].email = hist.outEmail

====
